---- MODULE Spec2Model ----
(***************************************************************************)
(* Validation model of cloud_common.protocols.unit.unit_config: the         *)
(* pydantic models AlertRulePercents, AlertRulePercentsOfDisk,              *)
(* AlertRulePoints, ResourceRatiosInfo, AlertRules, ResourceInfo,           *)
(* NodeConfig and UnitConfig.  A wire document is a JSON-compatible value;  *)
(* constructing a model from it yields either the list of localized errors  *)
(* or the model instance.  An instance can afterwards be assigned to,       *)
(* dumped back to a document and parsed again.                              *)
(***************************************************************************)
EXTENDS Integers, Sequences, FiniteSets, TLC

(***************************************************************************)
(* Numbers.  Python integers are unbounded and the priority bound is        *)
(* 2^32 - 1, so a number is kept as sign, magnitude in two 16-bit limbs     *)
(* (hi * 2^16 + lo) and an optional half (the only fraction the model's     *)
(* inputs use).                                                             *)
(***************************************************************************)
Limb == 2 ^ 16

Num(n) == [neg |-> n < 0, hi |-> 0, lo |-> IF n < 0 THEN 0 - n ELSE n, half |-> 0]

Half(n) == [neg |-> FALSE, hi |-> 0, lo |-> n, half |-> 1]

Big(h, l) == [neg |-> FALSE, hi |-> h, lo |-> l, half |-> 0]

MagLt(a, b) ==
    \/ a.hi < b.hi
    \/ a.hi = b.hi /\ a.lo < b.lo
    \/ a.hi = b.hi /\ a.lo = b.lo /\ a.half < b.half

NumLt(a, b) ==
    IF a.neg /\ ~b.neg THEN TRUE
    ELSE IF ~a.neg /\ b.neg THEN FALSE
    ELSE IF a.neg THEN MagLt(b, a)
    ELSE MagLt(a, b)

NumLe(a, b) == a = b \/ NumLt(a, b)

(***************************************************************************)
(* Values: the JSON-compatible wire values and the Python values stored in  *)
(* a model instance share one representation.                               *)
(***************************************************************************)
None == [t |-> "null"]

JBool(b) == [t |-> "bool", b |-> b]

JInt(n) == [t |-> "int", n |-> n]

JFloat(n) == [t |-> "float", n |-> n]

JStr(s) == [t |-> "str", s |-> s]

JList(items) == [t |-> "list", items |-> items]

JObj(f) == [t |-> "obj", f |-> f]

Model(cls, f) == [t |-> "model", cls |-> cls, f |-> f]

(***************************************************************************)
(* Validation results: the errors found (each a location and a kind) and    *)
(* the value built; the construction is accepted iff there is no error.     *)
(***************************************************************************)
Err(loc, type) == [loc |-> loc, type |-> type]

Ok(v) == [errs |-> {}, val |-> v]

Fail(type) == [errs |-> {Err(<<>>, type)}, val |-> None]

At(key, r) ==
    [errs |-> {Err(<<key>> \o e.loc, e.type) : e \in r.errs}, val |-> r.val]

Accepted(r) == r.errs = {}

(***************************************************************************)
(* The decimal strings the inputs use, as Python's float(str)/int(str)      *)
(* read them; any other string is not a number.                             *)
(***************************************************************************)
IsDecimal(s) == s \in {"2", "50", "150"}

DecimalValue(s) ==
    CASE s = "2" -> Num(2)
      [] s = "50" -> Num(50)
      [] s = "150" -> Num(150)

(***************************************************************************)
(* Type validators in pydantic's default (lax) mode.                        *)
(***************************************************************************)
\* float: numbers, bools and decimal strings are read as a float
ValFloat(x) ==
    CASE x.t = "float" -> Ok(JFloat(x.n))
      [] x.t = "int" -> Ok(JFloat(x.n))
      [] x.t = "bool" -> Ok(JFloat(IF x.b THEN Num(1) ELSE Num(0)))
      [] x.t = "str" ->
            IF IsDecimal(x.s) THEN Ok(JFloat(DecimalValue(x.s)))
            ELSE Fail("float_parsing")
      [] OTHER -> Fail("float_type")

\* int: integers, bools, integral floats and decimal strings are read as an int
ValInt(x) ==
    CASE x.t = "int" -> Ok(JInt(x.n))
      [] x.t = "float" ->
            IF x.n.half = 0 THEN Ok(JInt(x.n)) ELSE Fail("int_from_float")
      [] x.t = "bool" -> Ok(JInt(IF x.b THEN Num(1) ELSE Num(0)))
      [] x.t = "str" ->
            IF IsDecimal(x.s) THEN Ok(JInt(DecimalValue(x.s)))
            ELSE Fail("int_parsing")
      [] OTHER -> Fail("int_type")

\* str: only a string
ValStr(x) == IF x.t = "str" THEN Ok(x) ELSE Fail("string_type")

\* Field constraints ge / le / gt / lt, applied to a validated number
Ge(r, b) ==
    IF Accepted(r) /\ NumLt(r.val.n, b) THEN Fail("greater_than_equal") ELSE r

Le(r, b) ==
    IF Accepted(r) /\ NumLt(b, r.val.n) THEN Fail("less_than_equal") ELSE r

Gt(r, b) ==
    IF Accepted(r) /\ NumLe(r.val.n, b) THEN Fail("greater_than") ELSE r

Lt(r, b) ==
    IF Accepted(r) /\ NumLe(b, r.val.n) THEN Fail("less_than") ELSE r

\* marks a key left out of a document
Absent == [t |-> "absent"]

\* the value given for a key, if any
Get(d, alias) == IF alias \in DOMAIN d THEN d[alias] ELSE Absent

\* A field without default: the key must be present; r validates its value
Required(d, alias, r) ==
    IF alias \in DOMAIN d THEN At(alias, r)
    ELSE [errs |-> {Err(<<alias>>, "missing")}, val |-> None]

\* A field with a default: the default is stored without being validated
Defaulted(d, alias, r, default) ==
    IF alias \in DOMAIN d THEN At(alias, r) ELSE Ok(default)

Items(x) == IF x.t = "list" THEN x.items ELSE <<>>

\* list[T]: rs validates the items, whose errors are located by index
ValList(x, rs) ==
    IF x.t # "list" THEN Fail("list_type")
    ELSE [errs |-> UNION {At(ToString(i - 1), rs[i]).errs : i \in DOMAIN rs},
          val |-> JList([i \in DOMAIN rs |-> rs[i].val])]

\* Optional[T]: None is accepted as None; r validates any other value
ValOptional(x, r) == IF x = None THEN Ok(None) ELSE r

\* The instance built from the field results, or their errors
Build(cls, x, fields) ==
    IF x.t # "obj" THEN Fail("model_type")
    ELSE [errs |-> UNION {fields[k].errs : k \in DOMAIN fields},
          val |-> Model(cls, [k \in DOMAIN fields |-> fields[k].val])]

Fields(x) == IF x.t = "obj" THEN x.f ELSE <<>>

(***************************************************************************)
(* AlertRulePercents                                                        *)
(***************************************************************************)
AlertRulePercents_min_threshold(x) == Le(Ge(ValFloat(x), Num(0)), Num(100))

\* the bound clamped into range instead of rejected
AlertRulePercents_max_threshold_clamped(x) ==
    IF Accepted(ValFloat(x)) /\ NumLt(Num(100), ValFloat(x).val.n)
    THEN Ok(JFloat(Num(100)))
    ELSE Ge(ValFloat(x), Num(0))

AlertRulePercents_max_threshold(x) == Le(Ge(ValFloat(x), Num(0)), Num(100))

AlertRulePercents_min_timeout(x) == Gt(ValFloat(x), Num(0))

AlertRulePercentsFields(d) ==
    [min_threshold |-> Required(d, "minThreshold",
                         AlertRulePercents_min_threshold(Get(d, "minThreshold"))),
     max_threshold |-> Required(d, "maxThreshold",
                         AlertRulePercents_max_threshold(Get(d, "maxThreshold"))),
     min_timeout |-> Required(d, "minTimeout",
                         AlertRulePercents_min_timeout(Get(d, "minTimeout")))]

AlertRulePercents(x) ==
    LET d == Fields(x)
    IN  Build("AlertRulePercents", x, AlertRulePercentsFields(d))

(***************************************************************************)
(* AlertRulePercentsOfDisk(AlertRulePercents)                               *)
(***************************************************************************)
AlertRulePercentsOfDisk_name(x) == ValStr(x)

AlertRulePercentsOfDisk(x) ==
    LET d == Fields(x)
    IN  Build("AlertRulePercentsOfDisk", x,
          [k \in {"min_threshold", "max_threshold", "min_timeout", "name"} |->
              IF k = "name"
              THEN Required(d, "name", AlertRulePercentsOfDisk_name(Get(d, "name")))
              ELSE AlertRulePercentsFields(d)[k]])

(***************************************************************************)
(* AlertRulePoints                                                          *)
(***************************************************************************)
AlertRulePoints_min_threshold(x) == Ge(ValInt(x), Num(0))

\* the percent ceiling copied onto the point bound
AlertRulePoints_max_threshold_percent(x) == Le(Ge(ValInt(x), Num(0)), Num(100))

AlertRulePoints_max_threshold(x) == Ge(ValInt(x), Num(0))

AlertRulePoints_min_timeout(x) == Gt(ValFloat(x), Num(0))

AlertRulePoints(x) ==
    LET d == Fields(x)
    IN  Build("AlertRulePoints", x,
          [min_threshold |-> Required(d, "minThreshold",
                 AlertRulePoints_min_threshold(Get(d, "minThreshold"))),
           max_threshold |-> Required(d, "maxThreshold",
                 AlertRulePoints_max_threshold(Get(d, "maxThreshold"))),
           min_timeout |-> Required(d, "minTimeout",
                 AlertRulePoints_min_timeout(Get(d, "minTimeout")))])

(***************************************************************************)
(* ResourceRatiosInfo                                                       *)
(***************************************************************************)
ResourceRatiosInfo(x) ==
    LET d == Fields(x)
    IN  Build("ResourceRatiosInfo", x,
          [cpu |-> Defaulted(d, "cpu",
                 ValFloat(Get(d, "cpu")), None),
           ram |-> Defaulted(d, "ram",
                 ValFloat(Get(d, "ram")), None),
           storage |-> Defaulted(d, "storage",
                 ValFloat(Get(d, "storage")), None),
           state |-> Defaulted(d, "state",
                 ValFloat(Get(d, "state")), None)])

(***************************************************************************)
(* AlertRules                                                               *)
(***************************************************************************)
\* default=None of each of the five slots
AlertRules_default == None

AlertRules_cpu(x) == AlertRulePercents(x)

AlertRules_ram(x) == AlertRulePercents(x)

AlertRulePercentsOfDiskList(x) ==
    ValList(x, [i \in DOMAIN Items(x) |-> AlertRulePercentsOfDisk(Items(x)[i])])

AlertRules_partitions(x) == ValOptional(x, AlertRulePercentsOfDiskList(x))

AlertRules_download(x) == AlertRulePoints(x)

AlertRules_upload(x) == AlertRulePoints(x)

AlertRules(x) ==
    LET d == Fields(x)
    IN  Build("AlertRules", x,
          [cpu |-> Defaulted(d, "cpu",
                 AlertRules_cpu(Get(d, "cpu")), AlertRules_default),
           ram |-> Defaulted(d, "ram",
                 AlertRules_ram(Get(d, "ram")), AlertRules_default),
           partitions |-> Defaulted(d, "partitions",
                 AlertRules_partitions(Get(d, "partitions")), AlertRules_default),
           download |-> Defaulted(d, "download",
                 AlertRules_download(Get(d, "download")), AlertRules_default),
           upload |-> Defaulted(d, "upload",
                 AlertRules_upload(Get(d, "upload")), AlertRules_default)])

(***************************************************************************)
(* External sub-objects (AosDeviceInfo, AosFileSystemMount, AosHostRecord)  *)
(* and the field types of cloud_common.protocols.unit.types                 *)
(***************************************************************************)
\* an external sub-object is taken as validated by its owner: any object
AosObject(x) == IF x.t = "obj" THEN Ok(x) ELSE Fail("model_type")

AosObjectList(x) == ValList(x, [i \in DOMAIN Items(x) |-> AosObject(Items(x)[i])])

StrList(x) == ValList(x, [i \in DOMAIN Items(x) |-> ValStr(Items(x)[i])])

\* node_type: mandatory string, wire name nodeType
TypeNodeTypeMandatory(d) == Required(d, "nodeType", ValStr(Get(d, "nodeType")))

OptionalStr(x) == ValOptional(x, ValStr(x))

\* node_id: optional string, wire name nodeId
TypeNodeIdOptional(d) == Defaulted(d, "nodeId", OptionalStr(Get(d, "nodeId")), None)

\* version: mandatory string, wire name version
TypeVersionMandatory(d) == Required(d, "version", ValStr(Get(d, "version")))

(***************************************************************************)
(* ResourceInfo                                                             *)
(***************************************************************************)
ResourceInfo(x) ==
    LET d == Fields(x)
    IN  Build("ResourceInfo", x,
          [name |-> Required(d, "name",
                 ValStr(Get(d, "name"))),
           groups |-> Defaulted(d, "groups",
                 StrList(Get(d, "groups")), None),
           mounts |-> Defaulted(d, "mounts",
                 AosObjectList(Get(d, "mounts")), None),
           envs |-> Defaulted(d, "envs",
                 StrList(Get(d, "envs")), None),
           hosts |-> Defaulted(d, "hosts",
                 AosObjectList(Get(d, "hosts")), None)])

(***************************************************************************)
(* NodeConfig                                                               *)
(***************************************************************************)
\* lt = (2**32) - 1 = 65535 * 2^16 + 65535
PriorityLimit == Big(Limb - 1, Limb - 1)

\* the nested errors reported at the field itself, their path lost
NodeConfig_alert_rules_unlocated(x) ==
    [errs |-> {Err(<<>>, e.type) : e \in AlertRules(x).errs}, val |-> AlertRules(x).val]

NodeConfig_alert_rules(x) == AlertRules(x)

\* default_factory=AlertRules instead of default=None
NodeConfig_alert_rules_default_factory ==
    Model("AlertRules", [k \in {"cpu", "ram", "partitions", "download", "upload"} |-> None])

NodeConfig_alert_rules_default == None

NodeConfig_resource_ratios(x) == ResourceRatiosInfo(x)

NodeConfig_resources(x) ==
    ValList(x, [i \in DOMAIN Items(x) |-> ResourceInfo(Items(x)[i])])

\* le instead of lt
NodeConfig_priority_inclusive(x) == Le(Ge(ValInt(x), Num(0)), PriorityLimit)

NodeConfig_priority(x) == Lt(Ge(ValInt(x), Num(0)), PriorityLimit)

NodeConfig(x) ==
    LET d == Fields(x)
    IN  Build("NodeConfig", x,
          [node_type |-> TypeNodeTypeMandatory(d),
           node_id |-> TypeNodeIdOptional(d),
           alert_rules |-> Defaulted(d, "alertRules",
                 NodeConfig_alert_rules(Get(d, "alertRules")), NodeConfig_alert_rules_default),
           resource_ratios |-> Defaulted(d, "resourceRatios",
                 NodeConfig_resource_ratios(Get(d, "resourceRatios")), None),
           devices |-> Defaulted(d, "devices",
                 AosObjectList(Get(d, "devices")), None),
           resources |-> Defaulted(d, "resources",
                 NodeConfig_resources(Get(d, "resources")), None),
           labels |-> Defaulted(d, "labels",
                 StrList(Get(d, "labels")), None),
           priority |-> Required(d, "priority",
                 NodeConfig_priority(Get(d, "priority")))])

(***************************************************************************)
(* UnitConfig                                                               *)
(***************************************************************************)
\* str | int (smart union): an exact str or int is kept as it is; otherwise
\* the first member that accepts the value in lax mode wins; when both
\* fail, each member reports its own error under its tag
\* int tried first, so that a decimal string is normalized to an integer
UnitConfig_format_version_int_first(x) ==
    IF Accepted(ValInt(x)) THEN ValInt(x)
    ELSE IF Accepted(ValStr(x)) THEN ValStr(x)
    ELSE [errs |-> At("int", ValInt(x)).errs \cup At("str", ValStr(x)).errs,
          val |-> None]

UnitConfig_format_version(x) ==
    IF Accepted(ValStr(x)) THEN ValStr(x)
    ELSE IF Accepted(ValInt(x)) THEN ValInt(x)
    ELSE [errs |-> At("str", ValStr(x)).errs \cup At("int", ValInt(x)).errs,
          val |-> None]

NodeAccepted(n) == Accepted(NodeConfig(n))

\* best effort: the nodes that fail validation are dropped
UnitConfig_nodes_best_effort(x) ==
    LET kept == SelectSeq(Items(x), NodeAccepted)
    IN  ValList(x, [i \in DOMAIN kept |-> NodeConfig(kept[i])])

UnitConfig_nodes(x) ==
    ValList(x, [i \in DOMAIN Items(x) |-> NodeConfig(Items(x)[i])])

UnitConfig(x) ==
    LET d == Fields(x)
    IN  Build("UnitConfig", x,
          [format_version |-> Required(d, "formatVersion",
                 UnitConfig_format_version(Get(d, "formatVersion"))),
           version |-> TypeVersionMandatory(d),
           nodes |-> Required(d, "nodes",
                 UnitConfig_nodes(Get(d, "nodes")))])

\* cls(x): the constructor of the class named cls
Construct(cls, x) ==
    CASE cls = "AlertRulePercents" -> AlertRulePercents(x)
      [] cls = "AlertRulePercentsOfDisk" -> AlertRulePercentsOfDisk(x)
      [] cls = "AlertRulePoints" -> AlertRulePoints(x)
      [] cls = "ResourceRatiosInfo" -> ResourceRatiosInfo(x)
      [] cls = "AlertRules" -> AlertRules(x)
      [] cls = "ResourceInfo" -> ResourceInfo(x)
      [] cls = "NodeConfig" -> NodeConfig(x)
      [] cls = "UnitConfig" -> UnitConfig(x)

(***************************************************************************)
(* Serialization (BaseModel.model_dump): every field of the instance, under *)
(* its wire name when by_alias, without the None fields when exclude_none.  *)
(***************************************************************************)
Alias(field) ==
    CASE field = "min_threshold" -> "minThreshold"
      [] field = "max_threshold" -> "maxThreshold"
      [] field = "min_timeout" -> "minTimeout"
      [] field = "node_type" -> "nodeType"
      [] field = "node_id" -> "nodeId"
      [] field = "alert_rules" -> "alertRules"
      [] field = "resource_ratios" -> "resourceRatios"
      [] field = "format_version" -> "formatVersion"
      [] OTHER -> field

DumpKey(field, by_alias) == IF by_alias THEN Alias(field) ELSE field

RECURSIVE ModelDump(_, _, _)
ModelDump(v, by_alias, exclude_none) ==
    CASE v.t = "model" ->
            LET kept == {k \in DOMAIN v.f : ~(exclude_none /\ v.f[k] = None)}
                keys == {DumpKey(k, by_alias) : k \in kept}
                field(key) == CHOOSE k \in kept : DumpKey(k, by_alias) = key
            IN  JObj([key \in keys |-> ModelDump(v.f[field(key)], by_alias, exclude_none)])
      [] v.t = "list" ->
            JList([i \in DOMAIN v.items |-> ModelDump(v.items[i], by_alias, exclude_none)])
      [] OTHER -> v

(***************************************************************************)
(* Bounds and inputs                                                        *)
(***************************************************************************)
MaxNodes == 2

MaxPartitions == 2

MaxAssign == 1

\* the object holding the keys of `all` that are not Absent
Doc(all) == JObj([k \in {k \in DOMAIN all : all[k] # Absent} |-> all[k]])

\* sequences over S of length at most n
SeqsUpTo(S, n) == UNION {[1..k -> S] : k \in 0..n}

BoundValues ==
    {Absent, None, JInt(Num(-1)), JInt(Num(0)), JInt(Num(50)), JInt(Num(100)),
     JInt(Num(101)), JInt(Big(16, 0)), JFloat(Half(100)), JFloat(Num(50)),
     JStr("50"), JStr("abc"), JBool(TRUE)}

TimeoutValues ==
    {Absent, None, JInt(Num(-1)), JInt(Num(0)), JFloat(Half(0)), JInt(Num(30))}

ThresholdDocs ==
    {Doc([minThreshold |-> a, maxThreshold |-> b, minTimeout |-> c]) :
        a \in BoundValues, b \in BoundValues, c \in TimeoutValues}
    \cup {None, JList(<<>>)}

Threshold(a, b, c) ==
    Doc([minThreshold |-> JInt(Num(a)), maxThreshold |-> JInt(Num(b)),
         minTimeout |-> JInt(Num(c))])

NameValues == {Absent, None, JStr(""), JStr("sda"), JInt(Num(5))}

DiskDocs ==
    {Doc([minThreshold |-> JInt(Num(10)), maxThreshold |-> b,
          minTimeout |-> JInt(Num(30)), name |-> n]) :
        b \in {JInt(Num(80)), JInt(Num(150))}, n \in NameValues}

Disk(name, max) ==
    Doc([minThreshold |-> JInt(Num(10)), maxThreshold |-> JInt(Num(max)),
         minTimeout |-> JInt(Num(30)), name |-> JStr(name)])

RatioDocs ==
    {Doc([cpu |-> a, ram |-> b, storage |-> Absent, state |-> b]) :
        a \in {Absent, None, JInt(Num(50)), JInt(Num(150)), JStr("abc")},
        b \in {Absent, JFloat(Half(0))}}

AlertRulesDocs ==
    {Doc([cpu |-> c, ram |-> r, partitions |-> p, download |-> d, upload |-> u]) :
        c \in {Absent, Threshold(10, 80, 30), Threshold(10, 150, 30)},
        r \in {Absent, Threshold(0, 0, 1)},
        p \in {Absent, None}
              \cup {JList(q) : q \in SeqsUpTo({Disk("sda", 80), Disk("", 150)}, MaxPartitions)},
        d \in {Absent, Threshold(0, 1000, 5), Threshold(-1, 1000, 5)},
        u \in {Absent, Threshold(5, 1, 1)}}
    \cup {None}

ResourceDocs ==
    {Doc([name |-> n, groups |-> g, mounts |-> m, envs |-> Absent, hosts |-> Absent]) :
        n \in {Absent, JStr("camera"), JInt(Num(5))},
        g \in {Absent, None, JList(<<JStr("video")>>), JList(<<JInt(Num(1))>>)},
        m \in {Absent, JList(<<JObj([source |-> JStr("/dev")])>>)}}

PriorityValues ==
    {Absent, None, JInt(Num(-1)), JInt(Num(0)), JInt(Num(5)),
     JInt(Big(Limb - 1, Limb - 2)), JInt(Big(Limb - 1, Limb - 1)),
     JInt(Big(Limb, 0)), JFloat(Half(5)), JStr("50")}

\* the optional fields other than alertRules: none, or all of them
NodeOptions ==
    {[nodeId |-> Absent, resourceRatios |-> Absent, devices |-> Absent,
      resources |-> Absent, labels |-> Absent],
     [nodeId |-> JStr("node0"), resourceRatios |-> Doc([cpu |-> JInt(Num(50))]),
      devices |-> JList(<<JObj([name |-> JStr("gpu")])>>),
      resources |-> JList(<<Doc([name |-> JStr("camera")])>>),
      labels |-> JList(<<JStr("main")>>)],
     [nodeId |-> Absent, resourceRatios |-> Absent, devices |-> Absent,
      resources |-> JList(<<Doc([name |-> JStr("camera")]), Doc([groups |-> JList(<<>>)])>>),
      labels |-> Absent]}

NodeAlertRules ==
    {Absent, None, JObj(<<>>),
     Doc([cpu |-> Threshold(10, 80, 30)]),
     Doc([cpu |-> Threshold(10, 150, 30)]),
     Doc([partitions |-> JList(<<Disk("sda", 80), Disk("sdb", 150)>>)])}

NodeDoc(t, a, o, p) ==
    Doc([nodeType |-> t, nodeId |-> o.nodeId, alertRules |-> a,
         resourceRatios |-> o.resourceRatios, devices |-> o.devices,
         resources |-> o.resources, labels |-> o.labels, priority |-> p])

NodeDocs ==
    {NodeDoc(t, a, o, p) :
        t \in {Absent, JStr("main")}, a \in NodeAlertRules, o \in NodeOptions,
        p \in PriorityValues}

\* the nodes a unit document is made of: a minimal one, a full one, an invalid one
UnitNodes ==
    {NodeDoc(JStr("main"), Absent, o, JInt(Num(5))) :
        o \in {o \in NodeOptions : o.nodeId # Absent \/ o.resources = Absent}}
    \cup {NodeDoc(JStr("secondary"), Doc([cpu |-> Threshold(10, 80, 30)]),
                  CHOOSE o \in NodeOptions : o.labels = Absent /\ o.resources = Absent,
                  JInt(Num(0))),
          NodeDoc(JStr("main"), Doc([cpu |-> Threshold(10, 150, 30)]),
                  CHOOSE o \in NodeOptions : o.labels = Absent /\ o.resources = Absent,
                  JInt(Num(5)))}

FormatVersions ==
    {Absent, None, JStr("2"), JInt(Num(2)), JFloat(Num(2)), JFloat(Half(2)),
     JBool(TRUE), JList(<<>>)}

UnitDocs ==
    {Doc([formatVersion |-> f, version |-> v, nodes |-> n]) :
        f \in FormatVersions, v \in {Absent, JStr("1.0.0")},
        n \in {Absent, None} \cup {JList(q) : q \in SeqsUpTo(UnitNodes, MaxNodes)}}

\* the value an assignment stores: a number outside every percent range
AssignedValues == {JInt(Num(150))}

(***************************************************************************)
(* State: the last construction (class, input, result), the instance it     *)
(* returned as it is now, and the last dump of it and its re-validation.    *)
(***************************************************************************)
VARIABLES cls, input, res, obj, nassign, dumped, opts, reparsed

vars == <<cls, input, res, obj, nassign, dumped, opts, reparsed>>

NoResult == [t |-> "none"]

NoOpts == [by_alias |-> FALSE, exclude_none |-> FALSE]

DocsOf(c) ==
    CASE c = "AlertRulePercents" -> ThresholdDocs
      [] c = "AlertRulePercentsOfDisk" -> DiskDocs
      [] c = "AlertRulePoints" -> ThresholdDocs
      [] c = "ResourceRatiosInfo" -> RatioDocs
      [] c = "AlertRules" -> AlertRulesDocs
      [] c = "ResourceInfo" -> ResourceDocs
      [] c = "NodeConfig" -> NodeDocs
      [] c = "UnitConfig" -> UnitDocs

Classes ==
    {"AlertRulePercents", "AlertRulePercentsOfDisk", "AlertRulePoints",
     "ResourceRatiosInfo", "AlertRules", "ResourceInfo", "NodeConfig", "UnitConfig"}

\* a document has arrived for one of the classes and is not validated yet
Init ==
    /\ cls \in Classes
    /\ input \in DocsOf(cls)
    /\ res = NoResult
    /\ obj = None
    /\ nassign = 0
    /\ dumped = None
    /\ opts = NoOpts
    /\ reparsed = NoResult

\* cls(**input) / cls.model_validate(input)
New(c) ==
    /\ cls = c
    /\ res = NoResult
    /\ res' = Construct(c, input)
    /\ obj' = IF Accepted(Construct(c, input)) THEN Construct(c, input).val ELSE None
    /\ UNCHANGED <<cls, input, nassign, dumped, opts, reparsed>>

NewAlertRulePercents == New("AlertRulePercents")

NewAlertRulePercentsOfDisk == New("AlertRulePercentsOfDisk")

NewAlertRulePoints == New("AlertRulePoints")

NewResourceRatiosInfo == New("ResourceRatiosInfo")

NewAlertRules == New("AlertRules")

NewResourceInfo == New("ResourceInfo")

NewNodeConfig == New("NodeConfig")

NewUnitConfig == New("UnitConfig")

\* obj.field = v: the models are not frozen and do not validate assignments
SetAttrValue(o, field, v) == [o EXCEPT !.f[field] = v]

SetAttr ==
    /\ obj.t = "model"
    /\ nassign < MaxAssign
    /\ \E field \in DOMAIN obj.f, v \in AssignedValues :
          obj' = SetAttrValue(obj, field, v)
    /\ nassign' = nassign + 1
    /\ dumped' = None
    /\ opts' = NoOpts
    /\ reparsed' = NoResult
    /\ UNCHANGED <<cls, input, res>>

\* obj.model_dump(by_alias=..., exclude_none=...)
Dump ==
    /\ obj.t = "model"
    /\ dumped = None
    /\ \E by_alias \in BOOLEAN, exclude_none \in BOOLEAN :
          /\ dumped' = ModelDump(obj, by_alias, exclude_none)
          /\ opts' = [by_alias |-> by_alias, exclude_none |-> exclude_none]
    /\ reparsed' = NoResult
    /\ UNCHANGED <<cls, input, res, obj, nassign>>

\* cls.model_validate(dumped)
Reparse ==
    /\ dumped # None
    /\ reparsed = NoResult
    /\ reparsed' = Construct(cls, dumped)
    /\ UNCHANGED <<cls, input, res, obj, nassign, dumped, opts>>

Next ==
    \/ NewAlertRulePercents
    \/ NewAlertRulePercentsOfDisk
    \/ NewAlertRulePoints
    \/ NewResourceRatiosInfo
    \/ NewAlertRules
    \/ NewResourceInfo
    \/ NewNodeConfig
    \/ NewUnitConfig
    \/ SetAttr
    \/ Dump
    \/ Reparse

Spec == Init /\ [][Next]_vars

(***************************************************************************)
(* Reading of a wire value in the properties below: the number a value      *)
(* denotes for a numeric field (a JSON number, a bool, a decimal string).   *)
(***************************************************************************)
IsNumber(x) ==
    \/ x.t \in {"int", "float", "bool"}
    \/ x.t = "str" /\ x.s \in {"2", "50", "150"}

NumberOf(x) ==
    CASE x.t \in {"int", "float"} -> x.n
      [] x.t = "bool" -> IF x.b THEN Num(1) ELSE Num(0)
      [] x.s = "2" -> Num(2)
      [] x.s = "50" -> Num(50)
      [] x.s = "150" -> Num(150)

IsInteger(x) == IsNumber(x) /\ NumberOf(x).half = 0

Has(d, k) == k \in DOMAIN d

InPercentRange(d, k) ==
    /\ Has(d, k)
    /\ IsNumber(d[k])
    /\ ~NumLt(NumberOf(d[k]), Num(0))
    /\ ~NumLt(Num(100), NumberOf(d[k]))

NonNegativeInteger(d, k) ==
    /\ Has(d, k)
    /\ IsInteger(d[k])
    /\ ~NumLt(NumberOf(d[k]), Num(0))

PositiveTimeout(d) ==
    /\ Has(d, "minTimeout")
    /\ IsNumber(d.minTimeout)
    /\ NumLt(Num(0), NumberOf(d.minTimeout))

PercentInputOk(x) ==
    /\ x.t = "obj"
    /\ InPercentRange(x.f, "minThreshold")
    /\ InPercentRange(x.f, "maxThreshold")
    /\ PositiveTimeout(x.f)

PointInputOk(x) ==
    /\ x.t = "obj"
    /\ NonNegativeInteger(x.f, "minThreshold")
    /\ NonNegativeInteger(x.f, "maxThreshold")
    /\ PositiveTimeout(x.f)

Constructed(c) == cls = c /\ res # NoResult

\* C1: constructing an AlertRulePercents succeeds iff minThreshold and
\* maxThreshold each denote a number in [0,100] and minTimeout is present and
\* denotes a number > 0, whatever the order of the two bounds; on success the
\* stored bounds and timeout are the input's numbers, never a clamped value.
C1_PercentThresholdRange ==
    Constructed("AlertRulePercents") =>
        /\ Accepted(res) <=> PercentInputOk(input)
        /\ Accepted(res) =>
              /\ res.val.f.min_threshold = JFloat(NumberOf(input.f.minThreshold))
              /\ res.val.f.max_threshold = JFloat(NumberOf(input.f.maxThreshold))
              /\ res.val.f.min_timeout = JFloat(NumberOf(input.f.minTimeout))

\* an accepted rule whose low bound 100 lies above its high bound 0
C1_Witness ==
    /\ Constructed("AlertRulePercents")
    /\ Accepted(res)
    /\ res.val.f.min_threshold = JFloat(Num(100))
    /\ res.val.f.max_threshold = JFloat(Num(0))

\* C8: constructing an AlertRulePoints succeeds iff minThreshold and
\* maxThreshold each denote an integer >= 0 and minTimeout is present and
\* denotes a number > 0; there is no upper ceiling and a negative bound is
\* always rejected.
C8_PointThresholdRange ==
    Constructed("AlertRulePoints") =>
        /\ Accepted(res) <=> PointInputOk(input)
        /\ Accepted(res) =>
              /\ res.val.f.min_threshold = JInt(NumberOf(input.f.minThreshold))
              /\ res.val.f.max_threshold = JInt(NumberOf(input.f.maxThreshold))

\* an accepted rule with a bound of 2^20, far above the percent ceiling
C8_Witness ==
    /\ Constructed("AlertRulePoints")
    /\ Accepted(res)
    /\ res.val.f.max_threshold = JInt(Big(16, 0))
    /\ res.val.f.min_threshold = JInt(Num(101))

\* the node document with its priority replaced by 5
WithPriorityFive(x) ==
    JObj([k \in DOMAIN x.f \cup {"priority"} |->
            IF k = "priority" THEN JInt(Num(5)) ELSE x.f[k]])

PriorityInputOk(d) ==
    /\ Has(d, "priority")
    /\ IsInteger(d.priority)
    /\ ~NumLt(NumberOf(d.priority), Num(0))
    /\ NumLt(NumberOf(d.priority), Big(65535, 65535))

\* C2: a NodeConfig whose other fields are valid is accepted exactly when
\* priority is present and denotes an integer with 0 <= priority < 2^32 - 1;
\* 2^32 - 2 is accepted, 2^32 - 1, -1 and an absent priority are rejected.
C2_PriorityRange ==
    (Constructed("NodeConfig") /\ Accepted(NodeConfig(WithPriorityFive(input)))) =>
        /\ Accepted(res) <=> PriorityInputOk(input.f)
        /\ (Has(input.f, "priority") /\ input.f.priority = JInt(Big(65535, 65534)))
              => Accepted(res)
        /\ (Has(input.f, "priority") /\ input.f.priority = JInt(Big(65535, 65535)))
              => ~Accepted(res)
        /\ (Has(input.f, "priority") /\ input.f.priority = JInt(Num(-1)))
              => ~Accepted(res)
        /\ ~Has(input.f, "priority") => ~Accepted(res)

\* a node accepted with priority 2^32 - 2
C2_Witness ==
    /\ Constructed("NodeConfig")
    /\ Accepted(res)
    /\ res.val.f.priority = JInt(Big(65535, 65534))

\* the unit document with its formatVersion replaced by the string "2"
WithFormatVersionTwo(x) ==
    JObj([k \in DOMAIN x.f \cup {"formatVersion"} |->
            IF k = "formatVersion" THEN JStr("2") ELSE x.f[k]])

\* C6: format_version accepts a string and an integer and keeps the
\* representation it received ("2" stays the string "2", 2 stays the integer
\* 2), a unit document with either validates, a dump of the accepted value
\* emits the type received, and a value that is not a string and denotes no
\* integer (null, a fractional number, a list) is rejected; a bool or an
\* integral float is read as the integer it denotes.
C6_FormatVersionPreserved ==
    (Constructed("UnitConfig") /\ input.t = "obj" /\ Has(input.f, "formatVersion")) =>
        LET fv == input.f.formatVersion
        IN  /\ (fv.t \in {"str", "int"} /\ Accepted(UnitConfig(WithFormatVersionTwo(input))))
                  => (Accepted(res) /\ res.val.f.format_version = fv)
            /\ (fv.t # "str" /\ ~IsInteger(fv)) => ~Accepted(res)
            /\ (Accepted(res) /\ fv.t \notin {"str", "int"})
                  => res.val.f.format_version = JInt(NumberOf(fv))
            /\ (fv.t \in {"str", "int"} /\ nassign = 0 /\ dumped # None)
                  => dumped.f[DumpKey("format_version", opts.by_alias)] = fv

\* the integer 2 was received, kept as an integer and dumped as an integer
C6_Witness ==
    /\ Constructed("UnitConfig")
    /\ nassign = 0
    /\ Has(input.f, "formatVersion")
    /\ input.f.formatVersion = JInt(Num(2))
    /\ dumped # None
    /\ opts.by_alias
    /\ dumped.f.formatVersion = JInt(Num(2))
    /\ dumped.f.nodes.items # <<>>

Slots == {"cpu", "ram", "partitions", "download", "upload"}

EmptyAlertRules == Model("AlertRules", [k \in Slots |-> None])

\* a valid wire value for a slot
SlotValue(k) ==
    CASE k \in {"cpu", "ram"} -> Threshold(10, 80, 30)
      [] k = "partitions" -> JList(<<Disk("sda", 80)>>)
      [] OTHER -> Threshold(0, 1000, 5)

\* C9: a NodeConfig document without an alertRules key is accepted with
\* alert_rules absent (None), one with alertRules: {} with an AlertRules whose
\* five slots are all absent, and the two differ; a slot of AlertRules is
\* absent in the value exactly when its key is absent (or, for partitions,
\* null), whichever other slots are present, and is never a zero-valued rule.
C9_AbsenceIsNotDefault ==
    /\ (Constructed("NodeConfig") /\ Accepted(res)) =>
          /\ ~Has(input.f, "alertRules") => res.val.f.alert_rules = None
          /\ Has(input.f, "alertRules") =>
                /\ res.val.f.alert_rules # None
                /\ input.f.alertRules = JObj(<<>>)
                      => res.val.f.alert_rules = EmptyAlertRules
    /\ (Constructed("AlertRules") /\ Accepted(res)) =>
          \A k \in Slots :
             (~Has(input.f, k) \/ input.f[k] = None) <=> res.val.f[k] = None
    /\ (Constructed("AlertRules") /\ obj = res.val /\ dumped = None) =>
          \A S \in SUBSET Slots :
                LET r == AlertRules(JObj([k \in S |-> SlotValue(k)]))
                IN  /\ Accepted(r)
                    /\ \A k \in Slots : k \in S <=> r.val.f[k] # None

\* alertRules: {} was received and an AlertRules without any rule was stored
C9_Witness ==
    /\ Constructed("NodeConfig")
    /\ Accepted(res)
    /\ Has(input.f, "alertRules")
    /\ input.f.alertRules = JObj(<<>>)
    /\ res.val.f.alert_rules = EmptyAlertRules

DiskInputOk(x) ==
    /\ PercentInputOk(x)
    /\ Has(x.f, "name")
    /\ x.f.name.t = "str"

\* the wire value given for alertRules holds a field that violates its constraint
AlertRulesInputBad(a) ==
    \/ a.t # "obj"
    \/ /\ a.t = "obj"
       /\ \/ \E k \in {"cpu", "ram"} : Has(a.f, k) /\ ~PercentInputOk(a.f[k])
          \/ \E k \in {"download", "upload"} : Has(a.f, k) /\ ~PointInputOk(a.f[k])
          \/ /\ Has(a.f, "partitions")
             /\ a.f.partitions # None
             /\ \/ a.f.partitions.t # "list"
                \/ /\ a.f.partitions.t = "list"
                   /\ \E i \in DOMAIN a.f.partitions.items :
                         ~DiskInputOk(a.f.partitions.items[i])

ResourceInputBad(r) == r.t # "obj" \/ ~Has(r.f, "name") \/ r.f.name.t # "str"

\* the node document holds a field, at any depth, that violates its constraint
NodeInputBad(n) ==
    \/ n.t # "obj"
    \/ /\ n.t = "obj"
       /\ \/ ~Has(n.f, "nodeType")
          \/ ~PriorityInputOk(n.f)
          \/ Has(n.f, "alertRules") /\ AlertRulesInputBad(n.f.alertRules)
          \/ /\ Has(n.f, "resources")
             /\ \/ n.f.resources.t # "list"
                \/ /\ n.f.resources.t = "list"
                   /\ \E i \in DOMAIN n.f.resources.items :
                         ResourceInputBad(n.f.resources.items[i])

NodesOf(x) ==
    IF x.t = "obj" /\ Has(x.f, "nodes") /\ x.f.nodes.t = "list"
    THEN x.f.nodes.items ELSE <<>>

\* C4: a document with a field, at any depth, that violates its constraint is
\* rejected as a whole; an accepted value holds every sub-object of its
\* document, each as its own construction yields it: none is dropped,
\* replaced by absent or coerced into range.
C4_NoPartialAcceptance ==
    /\ Constructed("UnitConfig") =>
          /\ (\E i \in DOMAIN NodesOf(input) : NodeInputBad(NodesOf(input)[i]))
                => ~Accepted(res)
          /\ Accepted(res) =>
                /\ DOMAIN res.val.f.nodes.items = DOMAIN NodesOf(input)
                /\ \A i \in DOMAIN NodesOf(input) :
                      /\ ~NodeInputBad(NodesOf(input)[i])
                      /\ res.val.f.nodes.items[i] = NodeConfig(NodesOf(input)[i]).val
    /\ Constructed("NodeConfig") =>
          /\ NodeInputBad(input) => ~Accepted(res)
          /\ (Accepted(res) /\ Has(input.f, "alertRules")) =>
                res.val.f.alert_rules = AlertRules(input.f.alertRules).val
    /\ Constructed("AlertRules") =>
          /\ AlertRulesInputBad(input) => ~Accepted(res)
          /\ (Accepted(res) /\ Has(input.f, "partitions") /\ input.f.partitions # None) =>
                DOMAIN res.val.f.partitions.items = DOMAIN input.f.partitions.items
          /\ (Accepted(res) /\ Has(input.f, "cpu")) =>
                res.val.f.cpu = AlertRulePercents(input.f.cpu).val

\* a unit document whose first node is valid and whose second node has
\* alertRules.cpu.maxThreshold = 150 was rejected
C4_Witness ==
    /\ Constructed("UnitConfig")
    /\ ~Accepted(res)
    /\ Len(NodesOf(input)) = 2
    /\ ~NodeInputBad(NodesOf(input)[1])
    /\ NodeInputBad(NodesOf(input)[2])
    /\ Accepted(UnitConfig(JObj([input.f EXCEPT !.nodes = JList(<<NodesOf(input)[1]>>)])))
    /\ obj = None

\* {nodeType: main, priority: 5, alertRules: {cpu: {minThreshold: 10, maxThreshold: 150, minTimeout: 30}}}
C5_Example ==
    Doc([nodeType |-> JStr("main"), priority |-> JInt(Num(5)),
         alertRules |-> Doc([cpu |-> Threshold(10, 150, 30)])])

WireNames ==
    {"minThreshold", "maxThreshold", "minTimeout", "name", "cpu", "ram", "storage",
     "state", "partitions", "download", "upload", "groups", "mounts", "envs", "hosts",
     "nodeType", "nodeId", "alertRules", "resourceRatios", "devices", "resources",
     "labels", "priority", "formatVersion", "version", "nodes"}

\* loc is a path from x, in wire names and list indices, to a value of x, to
\* a key missing from an object of x, or to a member of the union at a value
RECURSIVE Locates(_, _)
Locates(x, loc) ==
    IF loc = <<>> \/ loc \in {<<"str">>, <<"int">>} THEN TRUE
    ELSE IF x.t = "obj"
         THEN /\ Head(loc) \in WireNames
              /\ IF Has(x.f, Head(loc)) THEN Locates(x.f[Head(loc)], Tail(loc))
                 ELSE Len(loc) = 1
    ELSE IF x.t = "list"
         THEN \E i \in DOMAIN x.items :
                 ToString(i - 1) = Head(loc) /\ Locates(x.items[i], Tail(loc))
    ELSE FALSE

Under(prefix, errs) == {Err(prefix \o e.loc, e.type) : e \in errs}

StartsWith(loc, prefix) ==
    Len(loc) >= Len(prefix) /\ SubSeq(loc, 1, Len(prefix)) = prefix

\* C5: the one validation call reports a failure of a nested object as one
\* error per offending field, located by the path from the document root in
\* wire names: the errors of a sub-object are the errors of its own
\* construction under the path of the sub-object, and the example document
\* fails with the single error less_than_equal at alertRules.cpu.maxThreshold.
C5_ErrorPath ==
    /\ (Constructed("NodeConfig") /\ input = C5_Example) =>
          res.errs = {Err(<<"alertRules", "cpu", "maxThreshold">>, "less_than_equal")}
    /\ (Constructed("NodeConfig") /\ Has(input.f, "alertRules")) =>
          {e \in res.errs : StartsWith(e.loc, <<"alertRules">>)}
             = Under(<<"alertRules">>, AlertRules(input.f.alertRules).errs)
    /\ Constructed("UnitConfig") =>
          \A i \in DOMAIN NodesOf(input) :
             {e \in res.errs : StartsWith(e.loc, <<"nodes", ToString(i - 1)>>)}
                = Under(<<"nodes", ToString(i - 1)>>, NodeConfig(NodesOf(input)[i]).errs)
    /\ res # NoResult =>
          /\ \A e \in res.errs : e.loc # <<>> => Locates(input, e.loc)
          /\ \A e1, e2 \in res.errs : e1.loc = e2.loc => e1 = e2

\* the example document was rejected with the one error at alertRules.cpu.maxThreshold
C5_Witness ==
    /\ Constructed("NodeConfig")
    /\ input = C5_Example
    /\ res.errs = {Err(<<"alertRules", "cpu", "maxThreshold">>, "less_than_equal")}
    /\ obj = None

\* C3: round-trip law: dumping an accepted, unmodified UnitConfig to the wire
\* document (wire names) and validating that document again succeeds and
\* yields an equal value, also when nodes leave optional fields absent.
C3_RoundTrip ==
    (Constructed("UnitConfig") /\ nassign = 0 /\ opts.by_alias /\ reparsed # NoResult) =>
        /\ Accepted(reparsed)
        /\ reparsed.val = obj

\* C7: an accepted instance never changes: in every later state it is the
\* value its construction returned, so the constraints checked at
\* construction still hold of it.
C7_Immutable ==
    (res # NoResult /\ Accepted(res)) => obj = res.val

\* C10: every accepted AlertRulePercentsOfDisk has a non-empty name: a
\* document without name or with the empty string as name is rejected.
C10_NameNonEmpty ==
    (Constructed("AlertRulePercentsOfDisk")
        /\ (~Has(input.f, "name") \/ input.f.name = JStr(""))) => ~Accepted(res)

====
